---------------------------- MODULE Spec2Model ----------------------------
(***************************************************************************)
(* A model of config/plugins/search/annas_archive.py: the search plugin    *)
(* AnnasArchiveSearch (search, _parse_search_results, _convert_results,    *)
(* _convert_size_to_bytes).                                                *)
(*                                                                         *)
(* Text is a sequence of one-character strings (<<"2", ".", "5">> stands   *)
(* for "2.5"); Python's None is NoneV.  A call that can raise yields a     *)
(* record tagged "return" or "raise".                                      *)
(***************************************************************************)
EXTENDS Integers, Sequences, FiniteSets, TLC

VARIABLES
    last_error,   \* self.last_error, the one attribute of the plugin instance
    call,         \* the frame of every running search: locals and position
    ncalls,       \* the number of calls begun so far
    size_str,     \* the argument of a direct _convert_size_to_bytes call
    size_out      \* its outcome, NoOutcome before the call

vars == <<last_error, call, ncalls, size_str, size_out>>

-----------------------------------------------------------------------------
(* Python values *)

NoneV == <<"None">>

Ret(v) == [tag |-> "return", val |-> v]

Raise(e) == [tag |-> "raise", val |-> <<e>>]

-----------------------------------------------------------------------------
(* Characters and the str / re primitives the plugin uses *)

Digits == {"0", "1", "2", "3", "4", "5", "6", "7", "8", "9"}

Letters == {"a", "b", "c", "d", "e", "f", "g", "k", "m", "x", "y", "z",
            "B", "G", "K", "M"}

\* \s and str.strip(): whitespace
Whitespace == {" "}

\* \w of the \b assertion
WordChars == Digits \cup Letters \cup {"_"}

\* [a-f0-9] of the identifier pattern
HexChars == Digits \cup {"a", "b", "c", "d", "e", "f"}

\* [\d.] of the two size patterns
NumChars == Digits \cup {"."}

DigitVal(c) ==
    CASE c = "0" -> 0 [] c = "1" -> 1 [] c = "2" -> 2 [] c = "3" -> 3
      [] c = "4" -> 4 [] c = "5" -> 5 [] c = "6" -> 6 [] c = "7" -> 7
      [] c = "8" -> 8 [] c = "9" -> 9

DigitChar(d) ==
    CASE d = 0 -> "0" [] d = 1 -> "1" [] d = 2 -> "2" [] d = 3 -> "3"
      [] d = 4 -> "4" [] d = 5 -> "5" [] d = 6 -> "6" [] d = 7 -> "7"
      [] d = 8 -> "8" [] d = 9 -> "9"

\* str.upper() on one character
Upper(c) ==
    CASE c = "b" -> "B" [] c = "g" -> "G" [] c = "k" -> "K" [] c = "m" -> "M"
      [] OTHER -> c

\* the end of the longest run of characters of class cls that starts at p
\* (p - 1 when s[p] is not in cls): a greedy cls* at p
RunEnd(s, p, cls) ==
    LET stops == {j \in p..Len(s) : s[j] \notin cls}
    IN  IF stops = {} THEN Len(s)
        ELSE (CHOOSE j \in stops : \A k \in stops : j <= k) - 1

\* (MB|KB|GB|B) under re.I at p: the number of characters matched, 0 for none
UnitLen(s, p) ==
    IF p + 1 <= Len(s) /\ Upper(s[p]) \in {"M", "K", "G"} /\ Upper(s[p + 1]) = "B"
    THEN 2
    ELSE IF p <= Len(s) /\ Upper(s[p]) = "B" THEN 1 ELSE 0

\* ([\d.]+)\s*(MB|KB|GB|B) anchored at p.  The number run and the whitespace
\* run are maximal: a shorter run is followed by a character that continues
\* it, which neither \s* nor the unit accepts, so backtracking finds nothing.
SizeMatchAt(s, p) ==
    LET ne == RunEnd(s, p, NumChars)
        we == RunEnd(s, ne + 1, Whitespace)
        ul == UnitLen(s, we + 1)
    IN  IF ne >= p /\ ul > 0
        THEN [ok |-> TRUE, num |-> SubSeq(s, p, ne),
              unit |-> SubSeq(s, we + 1, we + ul), end |-> we + ul]
        ELSE [ok |-> FALSE, num |-> <<>>, unit |-> <<>>, end |-> 0]

\* str.strip()
Strip(s) ==
    LET keep == {j \in 1..Len(s) : s[j] \notin Whitespace}
    IN  IF keep = {} THEN <<>>
        ELSE SubSeq(s, CHOOSE j \in keep : \A k \in keep : j <= k,
                       CHOOSE j \in keep : \A k \in keep : j >= k)

\* s[:n]
Prefix(s, n) == SubSeq(s, 1, IF Len(s) < n THEN Len(s) ELSE n)

RECURSIVE NatToStr(_)
\* str(n) for a small int n >= 0
NatToStr(n) ==
    IF n < 10 THEN <<DigitChar(n)>>
    ELSE Append(NatToStr(n \div 10), DigitChar(n % 10))

\* Python's int is unbounded: an int >= 0 is modelled by its decimal digits,
\* so that no product wraps.
RECURSIVE TimesSmall(_, _, _)
\* the digits of ds * m + carry, for a digit string ds and small m, carry
TimesSmall(ds, m, carry) ==
    IF ds = <<>> THEN (IF carry = 0 THEN <<>> ELSE NatToStr(carry))
    ELSE LET v == DigitVal(ds[Len(ds)]) * m + carry
         IN  Append(TimesSmall(SubSeq(ds, 1, Len(ds) - 1), m, v \div 10),
                    DigitChar(v % 10))

\* str() of the int with digits ds: no leading zeros, "0" for zero
IntStr(ds) ==
    LET nz == {j \in 1..Len(ds) : ds[j] # "0"}
    IN  IF nz = {} THEN <<"0">>
        ELSE SubSeq(ds, CHOOSE j \in nz : \A k \in nz : j <= k, Len(ds))

-----------------------------------------------------------------------------
(* _convert_size_to_bytes *)

KB == 1024

\* float(num) accepts a [\d.]+ run iff it has one dot at most and a digit
FloatOk(num) ==
    /\ Cardinality({j \in 1..Len(num) : num[j] = "."}) <= 1
    /\ \E j \in 1..Len(num) : num[j] \in Digits

\* the multipliers table, with multipliers.get(unit, 1): the power of 1024
MultiplierExp(unit) ==
    CASE unit = <<"B">> -> 0
      [] unit = <<"K", "B">> -> 1
      [] unit = <<"M", "B">> -> 2
      [] unit = <<"G", "B">> -> 3
      [] OTHER -> 0

RECURSIVE TimesKB(_, _)
\* the digits of ds * 1024^e
TimesKB(ds, e) == IF e = 0 THEN ds ELSE TimesKB(TimesSmall(ds, KB, 0), e - 1)

\* str(int(float(num) * multiplier)): num is the decimal n / 10^k, and the
\* int is floor(n * multiplier / 10^k), the product without its last k
\* digits.  With the few digits the model draws, the float product rounds to
\* the same integer as the exact one.
StrIntOfProduct(num, e) ==
    LET dots == {j \in 1..Len(num) : num[j] = "."}
        k    == IF dots = {} THEN 0 ELSE Len(num) - (CHOOSE j \in dots : TRUE)
        prod == TimesKB(SelectSeq(num, LAMBDA c : c \in Digits), e)
    IN  IntStr(SubSeq(prod, 1, Len(prod) - k))

ConvertSizeToBytes(s) ==
    IF s = NoneV \/ s = <<>> THEN Ret(<<"0">>)
    ELSE LET match == SizeMatchAt(s, 1)
         IN  IF ~match.ok THEN Ret(<<"0">>)
             ELSE IF ~FloatOk(match.num) THEN Raise("ValueError")
             ELSE LET unit == [j \in 1..Len(match.unit) |-> Upper(match.unit[j])]
                  IN  Ret(StrIntOfProduct(match.num, MultiplierExp(unit)))

-----------------------------------------------------------------------------
(* The document: what BeautifulSoup(html, 'html.parser') hands the parser.   *)
(* A document is a sequence of containers (article, li or div elements), a   *)
(* container a sequence of nodes in document order: an anchor ("a"), a       *)
(* heading ("h": h1, h2, h3 or strong) or a bare text node ("text"), each    *)
(* with its text s; an anchor has an href, NoneV when the attribute is       *)
(* missing.  fault marks an anchor for which resolving the container and its *)
(* text (lines 101-102) raises.                                              *)

Node(tag, href, s, fault) == [tag |-> tag, href |-> href, s |-> s, fault |-> fault]

BASE_URL == <<"https://annas-archive.org">>

Md5Marker == <<"/", "m", "d", "5", "/">>

\* re.search(r'/md5/([a-f0-9]+)', href): the leftmost place of the marker
\* followed by a hex character, and the longest hex run there
Md5Search(href) ==
    LET at == {p \in 1..(Len(href) - 5) :
                  /\ SubSeq(href, p, p + 4) = Md5Marker
                  /\ href[p + 5] \in HexChars}
    IN  IF href = NoneV \/ at = {} THEN [ok |-> FALSE, md5 |-> <<>>]
        ELSE LET p == CHOOSE q \in at : \A r \in at : q <= r
             IN  [ok |-> TRUE,
                  md5 |-> SubSeq(href, p + 5, RunEnd(href, p + 5, HexChars))]

\* '/md5/' in href
HasMarker(href) ==
    \E p \in 1..(Len(href) - 4) : SubSeq(href, p, p + 4) = Md5Marker

RECURSIVE LinksFrom(_, _)
\* the anchors of containers c.. whose href the identifier pattern finds,
\* each as <<container, node>>, in document order
LinksFrom(html, c) ==
    IF c > Len(html) THEN <<>>
    ELSE SelectSeq([k \in 1..Len(html[c]) |-> <<c, k>>],
                   LAMBDA lk : /\ html[c][lk[2]].tag = "a"
                               /\ Md5Search(html[c][lk[2]].href).ok)
         \o LinksFrom(html, c + 1)

\* soup.find_all('a', href=re.compile(r'/md5/[a-f0-9]+'))
FindMd5Links(html) == LinksFrom(html, 1)

RECURSIVE JoinStripped(_)
\* get_text(" ", strip=True): the stripped, non-empty texts joined by " "
JoinStripped(nodes) ==
    IF nodes = <<>> THEN <<>>
    ELSE LET head == Strip(nodes[1].s)
             rest == JoinStripped(Tail(nodes))
         IN  IF head = <<>> THEN rest
             ELSE IF rest = <<>> THEN head
             ELSE head \o <<" ">> \o rest

\* re.search(r'([\d.]+)\s*(MB|KB|GB|B)\b', text, re.I): the leftmost start
\* whose match ends at a word boundary
SizeSearch(text) ==
    LET at == {p \in 1..Len(text) :
                  LET m == SizeMatchAt(text, p)
                  IN  /\ m.ok
                      /\ (m.end = Len(text) \/ text[m.end + 1] \notin WordChars)}
    IN  IF at = {} THEN [ok |-> FALSE, num |-> <<>>, unit |-> <<>>, end |-> 0]
        ELSE SizeMatchAt(text, CHOOSE q \in at : \A r \in at : q <= r)

MaxBooks == 25

TitleFallbackLen == 200

MinTitleLen == 3

\* the title of a candidate: the anchor's text, then the container's first
\* heading, then the first 200 characters of the container's text
TitleOf(link, container, context_text) ==
    LET t1 == Strip(link.s)
        hs == {k \in 1..Len(container) : container[k].tag = "h"}
        t2 == IF t1 = <<>> /\ hs # {}
              THEN Strip(container[CHOOSE k \in hs : \A j \in hs : k <= j].s)
              ELSE t1
    IN  IF t2 = <<>> THEN Prefix(context_text, TitleFallbackLen) ELSE t2

\* if not title or len(title) < 3: continue
TitleRejected(title) == title = <<>> \/ Len(title) < MinTitleLen

\* a loop that skips no anchor
NeverSeen(md5, seen_md5) == FALSE

\* if md5 in seen_md5: continue
AlreadySeen(md5, seen_md5) == md5 \in seen_md5

\* an identifier marked as seen only once its record is kept
SeenOnlyWhenKept(seen_md5, md5) == seen_md5

\* lines 96-98 run before the title is looked at: a candidate that is
\* dropped later has its identifier in seen_md5 all the same
SeenWhenDropped(seen_md5, md5) == seen_md5 \cup {md5}

\* a break one record late
CapReachedLate(books) == Len(books) > MaxBooks

\* if len(books) >= 25: break
CapReached(books) == Len(books) >= MaxBooks

\* One pass of the body of the candidate loop for the anchor lk, from the
\* locals seen_md5 and books: the locals after it, and whether it broke out
\* of the loop.  The author, extension and language keys come from re.search
\* calls on context_text that neither raise nor touch seen_md5 or books; the
\* model's records leave them out.
ParseLink(html, lk, seen_md5, books) ==
    LET container == html[lk[1]]
        link      == container[lk[2]]
        href      == IF link.href = NoneV THEN <<>> ELSE link.href
        skip      == [seen_md5 |-> seen_md5, books |-> books, brk |-> FALSE]
        md5_match == Md5Search(href)
        md5       == md5_match.md5
    IN  IF href = <<>> \/ ~HasMarker(href) THEN skip
        ELSE IF ~md5_match.ok THEN skip
        ELSE IF AlreadySeen(md5, seen_md5) THEN skip
        ELSE LET seen2 == seen_md5 \cup {md5}
                 drop  == [seen_md5 |-> SeenWhenDropped(seen_md5, md5),
                           books |-> books, brk |-> FALSE]
                 context_text == JoinStripped(container)
                 title == TitleOf(link, container, context_text)
                 size_match == SizeSearch(context_text)
                 book == [link  |-> IF href[1] = "/" THEN BASE_URL \o href ELSE href,
                          title |-> title,
                          md5   |-> md5,
                          size  |-> IF size_match.ok
                                    THEN size_match.num \o size_match.unit
                                    ELSE NoneV]
                 books2 == Append(books, book)
             IN  IF link.fault THEN drop
                 ELSE IF TitleRejected(title) THEN drop
                 ELSE [seen_md5 |-> seen2, books |-> books2, brk |-> CapReached(books2)]

RECURSIVE ParseLoop(_, _, _, _, _)
\* the candidate loop from its i-th anchor on
ParseLoop(html, links, i, seen_md5, books) ==
    IF i > Len(links) THEN books
    ELSE LET r == ParseLink(html, links[i], seen_md5, books)
         IN  IF r.brk THEN r.books
             ELSE ParseLoop(html, links, i + 1, r.seen_md5, r.books)

\* _parse_search_results(html)
ParseSearchResults(html) == ParseLoop(html, FindMd5Links(html), 1, {}, <<>>)

-----------------------------------------------------------------------------
(* _convert_results *)

\* the entry built from one raw record, or the exception its conversion raises
ConvertBook(book, cat) ==
    LET size_str_  == IF book.size = NoneV THEN <<"0", "M", "B">> ELSE book.size
        size_bytes == ConvertSizeToBytes(size_str_)
    IN  IF size_bytes.tag = "raise" THEN size_bytes
        ELSE Ret([link |-> book.link, guid |-> book.link, comments |-> book.link,
                  files |-> <<"1">>, size |-> size_bytes.val, category |-> cat,
                  grabs |-> <<"1", "0", "0">>, prefix |-> <<"annas_archive">>,
                  book_title |-> book.title, pub_ts |-> NoneV])

RECURSIVE ConvertResults(_, _)
\* an entry per record, in order; a record whose conversion raises is
\* logged and left out
ConvertResults(books, cat) ==
    IF books = <<>> THEN <<>>
    ELSE LET e == ConvertBook(books[1], cat)
             rest == ConvertResults(Tail(books), cat)
         IN  IF e.tag = "raise" THEN rest ELSE <<e.val>> \o rest

-----------------------------------------------------------------------------
(* search: the frame of one call, and its steps.  A step is the code        *)
(* between two points where another thread can run.                         *)

Procs == {1, 2}

NoOutcome == [tag |-> "none", val |-> <<>>]

MissingQuery == <<"Missing query">>

NoResults == <<"No results returned">>

\* Two fields record history and are read by no step: before is last_error
\* as the call found it, overwritten tells that another call has assigned
\* last_error since this call's own first assignment (line 29).
Frame(pc, query, cat, html) ==
    [pc |-> pc, query |-> query, cat |-> cat,
     primary |-> NoOutcome, fallback |-> NoOutcome, log |-> <<>>,
     html |-> html, md5_links |-> <<>>, i |-> 0, seen_md5 |-> {}, books |-> <<>>,
     results |-> <<>>, exc |-> NoneV, ret |-> <<>>, read |-> NoneV,
     before |-> NoneV, overwritten |-> FALSE]

IdleFrame == Frame("idle", NoneV, <<>>, <<>>)

\* a test for None alone
QueryIsNone(query) == query = NoneV

\* if not query
QueryMissing(query) == query = NoneV \/ query = <<>>

\* a call that leaves last_error as it finds it
KeepError(old) == old

\* line 29: self.last_error = None
ResetError(old) == NoneV

\* a fallback fetch made whatever the primary did
AlwaysFallback(primary) == TRUE

\* the inner except clause: the fallback runs iff the primary fetch raised
NeedsFallback(primary) == primary.tag = "raise"

\* str(e) in the outer except clause: e is what the fallback fetch raised
CaughtMessage(primary, fallback) == fallback.val

\* lines 62-63: the error state after a fetch that succeeded
ErrorAfterConvert(results, old) == IF results = <<>> THEN NoResults ELSE old

\* a seen_md5 kept on the instance, shared by its calls
SeenOfAll(frames, p) == UNION {frames[q].seen_md5 : q \in Procs}

\* the seen_md5 the loop of call p tests and updates: a local of its frame
SeenOf(frames, p) == frames[p].seen_md5

\* what one whole call returns and leaves in last_error when nothing runs
\* between its steps
SearchAlone(query, cat, primary, fallback) ==
    LET html    == IF primary.tag = "return" THEN primary.val ELSE fallback.val
        results == ConvertResults(ParseSearchResults(html), cat)
    IN  IF QueryMissing(query) THEN [ret |-> <<>>, err |-> MissingQuery]
        ELSE IF NeedsFallback(primary) /\ fallback.tag = "raise"
             THEN [ret |-> <<>>, err |-> CaughtMessage(primary, fallback)]
        ELSE [ret |-> results, err |-> ErrorAfterConvert(results, ResetError(NoneV))]

\* the frames after call p has assigned self.last_error: every other call
\* past its line 29 and not yet read by its caller has been overwritten
Assigned(frames, p) ==
    [q \in Procs |->
        IF q # p /\ frames[q].pc \notin {"idle", "start", "returned"}
        THEN [frames[q] EXCEPT !.overwritten = TRUE]
        ELSE frames[q]]

MaxCalls == 3

\* the host calls search(query, cat) on the instance
Begin(p, queries, cats) ==
    /\ call[p].pc \in {"idle", "returned"}
    /\ ncalls < MaxCalls
    /\ \E q \in queries, c \in cats :
          call' = [call EXCEPT ![p] = [Frame("start", q, c, <<>>)
                                         EXCEPT !.before = last_error]]
    /\ ncalls' = ncalls + 1
    /\ UNCHANGED <<last_error, size_str, size_out>>

\* line 29
SetNone(p) ==
    /\ call[p].pc = "start"
    /\ last_error' = ResetError(last_error)
    /\ call' = Assigned([call EXCEPT ![p].pc = "check"], p)
    /\ UNCHANGED <<ncalls, size_str, size_out>>

\* lines 30-32
CheckQuery(p) ==
    /\ call[p].pc = "check"
    /\ IF QueryMissing(call[p].query)
       THEN /\ last_error' = MissingQuery
            /\ call' = Assigned([call EXCEPT ![p].pc = "done", ![p].ret = <<>>], p)
       ELSE /\ call' = [call EXCEPT ![p].pc = "primary"]
            /\ UNCHANGED last_error
    /\ UNCHANGED <<ncalls, size_str, size_out>>

\* what a fetch can do: return a page or raise
FetchOutcomes(docs, errors) == {Ret(d) : d \in docs} \cup {Raise(e) : e \in errors}

\* lines 48-55: SeleniumHelper.get_page_source
PrimaryFetch(p, docs, errors) ==
    /\ call[p].pc = "primary"
    /\ \E out \in FetchOutcomes(docs, errors) :
          call' = [call EXCEPT
                     ![p].primary = out,
                     ![p].log = Append(@, "primary"),
                     ![p].html = IF out.tag = "return" THEN out.val ELSE @,
                     ![p].pc = IF NeedsFallback(out) THEN "fallback" ELSE "parse"]
    /\ UNCHANGED <<last_error, ncalls, size_str, size_out>>

\* line 56: SeleniumHelper.get_page_source_flaresolverr; what it raises
\* leaves the outer try
FallbackFetch(p, docs, errors) ==
    /\ call[p].pc = "fallback"
    /\ \E out \in FetchOutcomes(docs, errors) :
          call' = [call EXCEPT
                     ![p].fallback = out,
                     ![p].log = Append(@, "fallback"),
                     ![p].html = IF out.tag = "return" THEN out.val ELSE @,
                     ![p].exc = IF out.tag = "raise"
                                THEN CaughtMessage(call[p].primary, out) ELSE @,
                     ![p].pc = IF out.tag = "raise" THEN "except" ELSE "parse"]
    /\ UNCHANGED <<last_error, ncalls, size_str, size_out>>

\* lines 75-82: the anchors are found, the locals are fresh
ParseBegin(p) ==
    /\ call[p].pc = "parse"
    /\ LET links == FindMd5Links(call[p].html)
       IN  call' = [call EXCEPT
                      ![p].md5_links = links, ![p].i = 1,
                      ![p].seen_md5 = {}, ![p].books = <<>>,
                      ![p].pc = IF links = <<>> THEN "convert" ELSE "loop"]
    /\ UNCHANGED <<last_error, ncalls, size_str, size_out>>

\* lines 84-150: one pass of the loop body
LoopStep(p) ==
    /\ call[p].pc = "loop"
    /\ LET f == call[p]
           r == ParseLink(f.html, f.md5_links[f.i], SeenOf(call, p), f.books)
       IN  call' = [call EXCEPT
                      ![p].seen_md5 = r.seen_md5, ![p].books = r.books,
                      ![p].i = f.i + 1,
                      ![p].pc = IF r.brk \/ f.i + 1 > Len(f.md5_links)
                                THEN "convert" ELSE "loop"]
    /\ UNCHANGED <<last_error, ncalls, size_str, size_out>>

\* line 59 (line 152 has returned books)
Convert(p) ==
    /\ call[p].pc = "convert"
    /\ call' = [call EXCEPT
                  ![p].results = ConvertResults(call[p].books, call[p].cat),
                  ![p].pc = "finish"]
    /\ UNCHANGED <<last_error, ncalls, size_str, size_out>>

\* lines 61-64
Finish(p) ==
    /\ call[p].pc = "finish"
    /\ last_error' = ErrorAfterConvert(call[p].results, last_error)
    /\ LET returned == [call EXCEPT ![p].ret = call[p].results, ![p].pc = "done"]
       IN  call' = IF call[p].results = <<>> THEN Assigned(returned, p) ELSE returned
    /\ UNCHANGED <<ncalls, size_str, size_out>>

\* lines 66-69
Except(p) ==
    /\ call[p].pc = "except"
    /\ last_error' = call[p].exc
    /\ call' = Assigned([call EXCEPT ![p].ret = <<>>, ![p].pc = "done"], p)
    /\ UNCHANGED <<ncalls, size_str, size_out>>

\* the host, back from its call, reads the instance's last_error
ReadLastError(p) ==
    /\ call[p].pc = "done"
    /\ call' = [call EXCEPT ![p].read = last_error, ![p].pc = "returned"]
    /\ UNCHANGED <<last_error, ncalls, size_str, size_out>>

-----------------------------------------------------------------------------
(* The pages the checks draw *)

Spaces(n) == [j \in 1..n |-> " "]

Href(md5) == Md5Marker \o md5

Anchor(href, s) == Node("a", href, s, FALSE)

Heading(s) == Node("h", NoneV, s, FALSE)

Text(s) == Node("text", NoneV, s, FALSE)

HexDigit(d) ==
    CASE d < 10 -> DigitChar(d)
      [] d = 10 -> "a" [] d = 11 -> "b" [] d = 12 -> "c"
      [] d = 13 -> "d" [] d = 14 -> "e" [] d = 15 -> "f"

\* a result with its title in the anchor (identifier a)
Titled == <<Anchor(Href(<<"a">>), <<" ", "a", "b", "c", " ">>)>>

\* an anchor with no text in a container with no text (identifier a)
Bare == <<Anchor(Href(<<"a">>), <<>>)>>

\* an empty anchor in a container whose text is "ab" (identifier b)
TwoChars == <<Text(<<"a", "b">>), Anchor(Href(<<"b">>), <<" ">>)>>

\* an empty anchor under a heading (identifier b)
UnderHeading == <<Heading(<<"a", "b", "c", "d">>), Anchor(Href(<<"b">>), <<>>)>>

\* an empty anchor whose container's text is one node, "a", a long run of
\* spaces, "b" (identifier c)
WideGap ==
    <<Text(<<"a">> \o Spaces(TitleFallbackLen + 50) \o <<"b">>),
      Anchor(Href(<<"c">>), <<>>)>>

\* a result beside a size whose number has two dots (identifier c)
TwoDots ==
    <<Anchor(Href(<<"c">>), <<"x", "y", "z">>),
      Text(<<"1", ".", "2", ".", "5", "M", "B">>)>>

\* a result beside the size "2.5 MB" (identifier d); its href is absolute
Sized ==
    <<Anchor(<<"x">> \o Href(<<"d">>), <<"a", "b", "c">>),
      Text(<<"2", ".", "5", " ", "M", "B">>)>>

\* anchors the identifier pattern does not find: no href, no hex character
NotResults ==
    <<Node("a", NoneV, <<"a", "b", "c">>, FALSE),
      Anchor(Href(<<"Z">>), <<"a", "b", "c">>)>>

\* two anchors for the identifier a in one container, the first one empty
Twice == <<Anchor(Href(<<"a">>), <<>>), Anchor(Href(<<"a", "Z">>), <<"x", "y", "z">>)>>

\* the titled result of identifier a again, under another href
TitledAgain == <<Anchor(<<"x">> \o Href(<<"a">>), <<"x", "y", "z">>)>>

\* a result whose container cannot be read (identifier b)
Faulty == <<Node("a", Href(<<"b">>), <<"a", "b", "c">>, TRUE)>>

\* a result of its own, with a two-digit identifier no other container has
Fresh(i) == <<Anchor(Href(<<HexDigit(i \div 16), HexDigit(i % 16)>>), <<"x", "y", "z">>)>>

Pool == {Titled, Bare, TwoChars, UnderHeading, WideGap, TwoDots, Sized,
         NotResults, Twice, TitledAgain, Faulty}

MaxFresh == 26

\* a page: nothing or one pool container, fresh results, nothing or one
\* pool container
Pages(ends, nfresh) ==
    {pre \o [i \in 1..n |-> Fresh(i)] \o post :
        pre \in ends, post \in ends, n \in nfresh}

OneOf(pool) == {<<>>} \cup {<<k>> : k \in pool}

\* few fresh results, or about as many as the cap
FreshCounts == {n \in 0..MaxFresh : n <= 2 \/ n >= MaxFresh - 3}

ParseDocs == Pages(OneOf(Pool), FreshCounts)

SearchDocs == {<<>>, <<Titled>>, <<TwoDots>>, <<Bare, TitledAgain>>, <<Sized, Fresh(1)>>}

ConcDocs == {<<Bare>>, <<Titled>>, <<Titled, Sized>>}

Queries == {NoneV, <<>>, <<"q">>}

Cats == {<<"7020">>}

FetchErrors == {"timeout", "blocked"}

-----------------------------------------------------------------------------
(* Spec: the host calls search on one instance, one call after the other *)

Init ==
    /\ last_error \in {NoneV, <<"stale">>}
    /\ call = [p \in Procs |-> IdleFrame]
    /\ ncalls = 0
    /\ size_str = NoneV
    /\ size_out = NoOutcome

Next ==
    \/ Begin(1, Queries, Cats)
    \/ SetNone(1)
    \/ CheckQuery(1)
    \/ PrimaryFetch(1, SearchDocs, FetchErrors)
    \/ FallbackFetch(1, SearchDocs, FetchErrors)
    \/ ParseBegin(1)
    \/ LoopStep(1)
    \/ Convert(1)
    \/ Finish(1)
    \/ Except(1)
    \/ ReadLastError(1)

Spec == Init /\ [][Next]_vars

-----------------------------------------------------------------------------
(* SpecConc: two threads of the host call search on the same instance *)

NextConc ==
    \E p \in Procs :
        \/ Begin(p, {<<>>, <<"q">>}, Cats)
        \/ SetNone(p)
        \/ CheckQuery(p)
        \/ PrimaryFetch(p, ConcDocs, {"timeout"})
        \/ FallbackFetch(p, ConcDocs, {"blocked"})
        \/ ParseBegin(p)
        \/ LoopStep(p)
        \/ Convert(p)
        \/ Finish(p)
        \/ Except(p)
        \/ ReadLastError(p)

SpecConc == Init /\ [][NextConc]_vars

-----------------------------------------------------------------------------
(* SpecParse: _parse_search_results on a page, then _convert_results *)

InitParse ==
    /\ last_error = NoneV
    /\ \E d \in ParseDocs, c \in Cats :
          call = [p \in Procs |-> IF p = 1 THEN Frame("parse", <<"q">>, c, d)
                                  ELSE IdleFrame]
    /\ ncalls = 1
    /\ size_str = NoneV
    /\ size_out = NoOutcome

NextParse ==
    \/ ParseBegin(1)
    \/ LoopStep(1)
    \/ Convert(1)

SpecParse == InitParse /\ [][NextParse]_vars

-----------------------------------------------------------------------------
(* A direct call of _convert_size_to_bytes on every short token *)

MaxTokenLen == 5

SizeAlphabet == {"2", "5", ".", " ", "k", "M", "G", "B"}

RECURSIVE TextsUpTo(_, _)
\* every text over alphabet of length n at most
TextsUpTo(alphabet, n) ==
    IF n = 0 THEN {<<>>}
    ELSE LET shorter == TextsUpTo(alphabet, n - 1)
         IN  shorter \cup {Append(t, c) : t \in shorter, c \in alphabet}

\* the arguments: None and every text of length n at most
SizeTokens(n) == TextsUpTo(SizeAlphabet, n) \cup {NoneV}

InitSize ==
    /\ size_str \in SizeTokens(MaxTokenLen)
    /\ size_out = NoOutcome
    /\ last_error = NoneV
    /\ call = [p \in Procs |-> IdleFrame]
    /\ ncalls = 0

CallConvertSize ==
    /\ size_out = NoOutcome
    /\ size_out' = ConvertSizeToBytes(size_str)
    /\ UNCHANGED <<last_error, call, ncalls, size_str>>

NextSize == CallConvertSize

SpecSize == InitSize /\ [][NextSize]_vars

-----------------------------------------------------------------------------
(* Claims about _convert_size_to_bytes *)

\* a token of the form <number><optional whitespace><unit> and nothing else
IsSizeForm(s) ==
    /\ s # NoneV
    /\ SizeMatchAt(s, 1).ok
    /\ SizeMatchAt(s, 1).end = Len(s)
    /\ FloatOk(SizeMatchAt(s, 1).num)

\* the bytes the claim gives a token of that form
ClaimedBytes(s) ==
    LET m == SizeMatchAt(s, 1)
    IN  StrIntOfProduct(m.num, MultiplierExp([j \in 1..Len(m.unit) |-> Upper(m.unit[j])]))

\* C8: _convert_size_to_bytes never raises; a token <number><optional
\* whitespace><unit> gives the string of floor(number x multiplier), and every
\* other token (empty, None, not of that form) gives "0".
C8_SizeTotal ==
    size_out.tag # "none" =>
        /\ size_out.tag = "return"
        /\ size_out.val = IF IsSizeForm(size_str) THEN ClaimedBytes(size_str) ELSE <<"0">>

\* C8, the part the code keeps: a token of the form gives its bytes, and the
\* empty token, None and a token with no leading number or no unit give "0"
SizeOfWellFormed ==
    size_out.tag # "none" =>
        /\ IsSizeForm(size_str) => size_out = Ret(ClaimedBytes(size_str))
        /\ (size_str = NoneV \/ ~SizeMatchAt(size_str, 1).ok) => size_out = Ret(<<"0">>)

\* "2.5MB" is 2621440 bytes, "2 GB" is 2147483648, ".5kB" is 512
SizeExamples ==
    size_out.tag # "none" =>
        /\ size_str = <<"2", ".", "5", "M", "B">> =>
              size_out = Ret(<<"2", "6", "2", "1", "4", "4", "0">>)
        /\ size_str = <<"2", " ", "G", "B">> =>
              size_out = Ret(<<"2", "1", "4", "7", "4", "8", "3", "6", "4", "8">>)
        /\ size_str = <<".", "5", "k", "B">> => size_out = Ret(<<"5", "1", "2">>)

-----------------------------------------------------------------------------
(* Claims about _parse_search_results and _convert_results (SpecParse) *)

\* the frame of the parse
F == call[1]

LinkNode(html, lk) == html[lk[1]][lk[2]]

LinkMd5(html, lk) == Md5Search(LinkNode(html, lk).href).md5

\* a candidate that can be read and whose title is kept
ValidLink(html, lk) ==
    /\ ~LinkNode(html, lk).fault
    /\ LET t == TitleOf(LinkNode(html, lk), html[lk[1]], JoinStripped(html[lk[1]]))
       IN  t # <<>> /\ Len(t) >= 3

\* the link of the record an anchor gives
LinkUrl(href) == IF href[1] = "/" THEN BASE_URL \o href ELSE href

LoopOver == F.pc \in {"convert", "finish"}

DistinctMd5s ==
    \A j, k \in 1..Len(F.md5_links) :
        j < k => LinkMd5(F.html, F.md5_links[j]) # LinkMd5(F.html, F.md5_links[k])

\* C5: at every point of the loop there are 25 records at most and no record
\* has a title that is, once trimmed, empty or shorter than 3 characters.
C5_CapAndTrimmedTitle ==
    /\ Len(F.books) <= 25
    /\ \A j \in 1..Len(F.books) : Len(Strip(F.books[j].title)) >= 3

\* C5, the part the code keeps: 25 records at most, every title as stored has
\* 3 characters or more
CapAndStoredTitle ==
    /\ Len(F.books) <= 25
    /\ \A j \in 1..Len(F.books) : Len(F.books[j].title) >= 3

\* C6: no two records of one parse carry the same identifier.
C6_UniqueIdentifiers ==
    \A j, k \in 1..Len(F.books) : j # k => F.books[j].md5 # F.books[k].md5

\* a parse is over, of a page with three anchors or more for one identifier
\* between them, where that identifier gave a record
C6_Witness ==
    /\ LoopOver
    /\ Len(F.books) >= 2
    /\ \E j, k \in 1..Len(F.md5_links) :
          /\ j + 1 < k
          /\ LinkMd5(F.html, F.md5_links[j]) = LinkMd5(F.html, F.md5_links[k])
          /\ \E b \in 1..Len(F.books) :
                F.books[b].md5 = LinkMd5(F.html, F.md5_links[j])

\* C7: _convert_results gives one entry per raw record, in order.
C7_OneToOne ==
    F.pc = "finish" =>
        /\ Len(F.results) = Len(F.books)
        /\ \A j \in 1..Len(F.results) :
              /\ F.results[j].link = F.books[j].link
              /\ F.results[j].book_title = F.books[j].title

\* C7, the part the code keeps: the entries are the records whose size token
\* converts, in order
ConvertedInOrder ==
    F.pc = "finish" =>
        LET kept == SelectSeq(F.books,
                              LAMBDA b : b.size = NoneV \/ FloatOk(SizeMatchAt(b.size, 1).num))
        IN  /\ Len(F.results) = Len(kept)
            /\ \A j \in 1..Len(kept) :
                  /\ F.results[j].link = kept[j].link
                  /\ F.results[j].book_title = kept[j].title

\* C9: on a page whose anchors carry pairwise distinct identifiers, the parse
\* returns the first min(25, v) valid candidates in document order, v being
\* the number of valid candidates: a discarded candidate takes no place.
C9_FirstValidCandidates ==
    (LoopOver /\ DistinctMd5s) =>
        LET valid == SelectSeq(F.md5_links, LAMBDA lk : ValidLink(F.html, lk))
            n     == IF Len(valid) < 25 THEN Len(valid) ELSE 25
        IN  /\ Len(F.books) = n
            /\ \A j \in 1..n :
                  /\ F.books[j].md5 = LinkMd5(F.html, valid[j])
                  /\ F.books[j].link = LinkUrl(LinkNode(F.html, valid[j]).href)

\* a page of distinct identifiers with more than 25 valid candidates behind a
\* discarded one has been parsed, and 25 records came back
C9_Witness ==
    /\ LoopOver /\ DistinctMd5s
    /\ Len(F.books) = 25
    /\ ~ValidLink(F.html, F.md5_links[1])
    /\ Len(SelectSeq(F.md5_links, LAMBDA lk : ValidLink(F.html, lk))) > 25

RECURSIVE Md5sOf(_, _)
\* the identifiers of the anchors links, in order
Md5sOf(html, links) ==
    IF links = <<>> THEN <<>>
    ELSE <<LinkMd5(html, links[1])>> \o Md5sOf(html, Tail(links))

\* whether anchor j is the first of md5s to bear its identifier
IsFirstBearing(md5s, j) == \A m \in 1..(j - 1) : md5s[m] # md5s[j]

\* the first anchor that bears the identifier of anchor j
FirstBearing(md5s, j) ==
    CHOOSE k \in 1..j : md5s[k] = md5s[j] /\ IsFirstBearing(md5s, k)

\* the anchors the loop has been through
Processed == 1..(IF F.pc = "loop" \/ LoopOver THEN F.i - 1 ELSE 0)

\* C10: an identifier is seen from its first anchor on, kept or not: a record
\* comes from the first anchor that bears its identifier, and when that anchor
\* was dropped the identifier is in no record.
C10_FirstAnchorOnly ==
    LET md5s == Md5sOf(F.html, F.md5_links)
    IN  /\ \A j \in Processed : md5s[j] \in F.seen_md5
        /\ \A b \in 1..Len(F.books) :
              \E j \in Processed :
                  /\ F.books[b].md5 = md5s[j]
                  /\ IsFirstBearing(md5s, j)
                  /\ ValidLink(F.html, F.md5_links[j])
                  /\ F.books[b].link = LinkUrl(LinkNode(F.html, F.md5_links[j]).href)
        /\ \A j \in Processed :
              ~ValidLink(F.html, F.md5_links[FirstBearing(md5s, j)]) =>
                  \A b \in 1..Len(F.books) : F.books[b].md5 # md5s[j]

\* the loop has been through a valid anchor whose identifier an anchor that
\* gave no record bore before it
C10_Witness ==
    LET md5s == Md5sOf(F.html, F.md5_links)
    IN  /\ LoopOver
        /\ \E j \in Processed :
              /\ ~IsFirstBearing(md5s, j)
              /\ ValidLink(F.html, F.md5_links[j])
              /\ ~ValidLink(F.html, F.md5_links[FirstBearing(md5s, j)])
              /\ \A b \in 1..Len(F.books) : F.books[b].md5 # md5s[j]

\* the same, where the earlier anchor is one whose processing failed
AfterFailureWitness ==
    LET md5s == Md5sOf(F.html, F.md5_links)
    IN  /\ LoopOver
        /\ \E j \in Processed :
              /\ ~IsFirstBearing(md5s, j)
              /\ ValidLink(F.html, F.md5_links[j])
              /\ LinkNode(F.html, F.md5_links[FirstBearing(md5s, j)]).fault
              /\ \A b \in 1..Len(F.books) : F.books[b].md5 # md5s[j]

-----------------------------------------------------------------------------
(* Claims about search, one call after the other (Spec) *)

Returned(f) == f.pc \in {"done", "returned"}

\* C1: the fallback fetch is called only after the primary fetch has failed;
\* when both fail the call returns an empty list and last_error is the
\* message of the fallback's failure.
C1_FallbackOnlyAfterFailure ==
    /\ F.log \in {<<>>, <<"primary">>, <<"primary", "fallback">>}
    /\ F.log = <<"primary", "fallback">> => F.primary.tag = "raise"
    /\ (F.log = <<"primary">> /\ F.pc # "fallback") => F.primary.tag = "return"
    /\ (Returned(F) /\ F.primary.tag = "raise" /\ F.fallback.tag = "raise") =>
          /\ F.ret = <<>>
          /\ last_error = F.fallback.val

\* both fetches have failed, with different messages, and the call is back
C1_Witness ==
    /\ F.pc = "done"
    /\ F.primary.tag = "raise" /\ F.fallback.tag = "raise"
    /\ F.primary.val # F.fallback.val
    /\ F.log = <<"primary", "fallback">>

\* C2: a call with an empty or missing query returns an empty list, leaves
\* "Missing query" in last_error and fetches nothing, whatever the earlier
\* calls left.
C2_MissingQuery ==
    (Returned(F) /\ (F.query = NoneV \/ F.query = <<>>)) =>
        /\ F.ret = <<>>
        /\ last_error = MissingQuery
        /\ F.log = <<>>
        /\ F.primary = NoOutcome /\ F.fallback = NoOutcome

\* a call with the empty query is back, made on an instance whose earlier call
\* had left no error
C2_Witness ==
    /\ F.pc = "done"
    /\ F.query = <<>>
    /\ ncalls >= 2
    /\ F.before = NoneV

\* C3: after a call, last_error is None iff the call returned a non-empty
\* list, and it is "No results returned" when the fetch succeeded and no
\* record came out; what an earlier call left does not survive.
C3_LastErrorOfLastCall ==
    Returned(F) =>
        /\ last_error = NoneV <=> F.ret # <<>>
        /\ (\/ F.primary.tag = "return"
            \/ F.fallback.tag = "return") /\ F.ret = <<>> => last_error = NoResults

\* a call that found an earlier call's error is back with results
C3_Witness ==
    /\ F.pc = "done"
    /\ ncalls >= 2
    /\ F.before \in {MissingQuery, NoResults, <<"timeout">>}
    /\ F.ret # <<>>

\* a call whose fetch succeeded is back with no record
NoResultsWitness ==
    /\ F.pc = "done"
    /\ F.primary.tag = "return"
    /\ F.html # <<>>
    /\ F.ret = <<>>
    /\ last_error = NoResults

-----------------------------------------------------------------------------
(* Claims about two calls at once (SpecConc) *)

Alone(f) == SearchAlone(f.query, f.cat, f.primary, f.fallback)

=============================================================================
